---- MODULE Spec2Model ----
(***************************************************************************)
(* aio-limited: a token bucket (algorithms/bucket.rs) shared by rate       *)
(* limited resources (limited.rs) and refilled by a periodic timer task    *)
(* (limiter.rs).                                                           *)
(*                                                                         *)
(* BucketSpec drives the Bucket through its own methods (get, release,     *)
(* add_part, remove_part) next to the timer.                               *)
(* Spec drives it the way the crate's public API does: through Limited     *)
(* wrappers whose read/write call Limiter::get, the underlying I/O and     *)
(* Limiter::release / Limiter::enqueue, interleaved at lock granularity    *)
(* with the timer task and with the wrappers' construction and drop.       *)
(* RateSpec is Spec with a meter of the bytes moved per period.  FairSpec  *)
(* is Spec with a timer that keeps ticking and never fails.  CallSpec is   *)
(* Spec with such a timer and with the value each step returned to the     *)
(* caller kept in `last`.  GetSpec applies Bucket::get repeatedly to       *)
(* capacity records drawn from a range.  LockSpec splits every operation   *)
(* into the call of Mutex::lock, the wait for the Mutex and the critical   *)
(* section that ends with the guard dropped.                               *)
(***************************************************************************)
EXTENDS Integers, Sequences, FiniteSets

\* ------------------------------------------------------------------ bounds
\* largest `max` handed to Limiter::new / Bucket::new
MaxCapacity == 2
\* largest buffer length (the hint of Bucket::get)
MaxHint == 2
\* ticks of the timer in a run: the clock (an AtomicUsize, far from wrapping)
\* counts up to this value
MaxClock == 3
\* registrations stop once the id generator has passed this value
MaxId == 2
\* tokens a direct caller of the Bucket holds at once
MaxHeld == 2
\* direct callers stop releasing once the capacity value would pass this
MaxValue == 5
\* FairSpec: largest buffer length
MaxFairHint == 1
\* LockSpec: calls of Mutex::lock in a run
MaxLockCalls == 6
\* GetSpec: largest `max` and number of parts the capacity record is drawn with
MaxParts == 5
\* GetSpec: successful calls of Bucket::get in a row
MaxGrants == 5

\* the Limited wrappers that may exist at once, each polled by its own task
Slots == {"r", "w"}

VARIABLES
    maximum,   \* Bucket.maximum
    idgen,     \* Bucket.idgen
    cap,       \* Bucket.capacity: [index, value, parts]
    clock,     \* the AtomicUsize of Limiter::new handed to timer
    timer,     \* the timer task: "wait" | "drain" | "failed"
    tasks,     \* Limiter.tasks: the HashMap<Id, Task> as a sequence of entries
    limited,   \* per slot: [pc, id, len, t] of a Limited and its running call
    held,      \* tokens held by direct callers of the Bucket
    last,      \* the last call by a direct caller or the timer, in CallSpec
               \* what the step just taken returned: [op, n, res, t]
    notified,  \* per task: notify() calls made by the step just taken
    waiting,   \* slots whose call returned WouldBlock and were not notified since
    xfer,      \* meter (RateSpec): bytes moved since the latest reset under
               \* tokens granted since it
    locks      \* LockSpec: who holds the Mutex of Bucket.capacity and of
               \* Limiter.tasks, who is parked on which, and the calls of
               \* lock() made so far: [held, want, calls]

vars == <<maximum, idgen, cap, clock, timer, tasks, limited, held, last,
          notified, waiting, xfer, locks>>

Min(a, b) == IF a < b THEN a ELSE b

\* ------------------------------------------------------- algorithms/mod.rs
\* Token::new; `fresh` is bookkeeping: granted since the latest reset
Token_new(index, quant) == [index |-> index, quant |-> quant, fresh |-> TRUE]

\* Token::get
Token_get(t) == t.quant

\* a set that leaves the quantity as it is
Token_set_keep(t, q) == t

\* Token::set
Token_set(t, q) == IF q < t.quant THEN [t EXCEPT !.quant = q] ELSE t

NoToken == [index |-> 0, quant |-> 0, fresh |-> FALSE]

\* ---------------------------------------------------- algorithms/bucket.rs
\* Bucket::new
Bucket_new(capacity) == [index |-> 0, value |-> capacity, parts |-> 0]

\* quant with the hint left out of the minimum
quant_nohint(c, hint) ==
    LET x == c.value \div c.parts
    IN  IF x = 0 /\ c.value > 0 THEN 1 ELSE x

\* quant without the floor of 1
quant_nofloor(c, hint) ==
    LET x == c.value \div c.parts
    IN  Min(x, hint)

\* quant that ignores the number of parts
quant_greedy(c, hint) == Min(c.value, hint)

\* quant whose floor of 1 is given at value 0 too
quant_floor_any(c, hint) ==
    LET x == c.value \div c.parts
    IN  IF x = 0 THEN 1 ELSE Min(x, hint)

\* the quantity computed by Bucket::get when parts > 0
quant(c, hint) ==
    LET x == c.value \div c.parts
    IN  IF x = 0 /\ c.value > 0 THEN 1 ELSE Min(x, hint)

\* get whose parts == 0 path heeds the hint
get_hinted(c, hint) ==
    IF c.parts = 0
    THEN [res |-> "Ok", t |-> Token_new(c.index, Min(maximum, hint)), cap |-> c]
    ELSE IF quant(c, hint) = 0
         THEN [res |-> "NoCapacity", t |-> NoToken, cap |-> c]
         ELSE [res |-> "Ok", t |-> Token_new(c.index, quant(c, hint)),
               cap |-> [c EXCEPT !.value = @ - quant(c, hint)]]

\* Bucket::get
get(c, hint) ==
    IF c.parts = 0
    THEN [res |-> "Ok", t |-> Token_new(c.index, maximum), cap |-> c]
    ELSE IF quant(c, hint) = 0
         THEN [res |-> "NoCapacity", t |-> NoToken, cap |-> c]
         ELSE [res |-> "Ok", t |-> Token_new(c.index, quant(c, hint)),
               cap |-> [c EXCEPT !.value = @ - quant(c, hint)]]

\* release that credits a token of any index
release_any(c, t) == [c EXCEPT !.value = @ + Token_get(t)]

\* Bucket::release
release(c, t) ==
    IF t.index = c.index THEN [c EXCEPT !.value = @ + Token_get(t)] ELSE c

\* Bucket::reset
reset(c, i) == [c EXCEPT !.index = i, !.value = maximum]

\* add_part that refuses one part too late
add_part_late(c) ==
    IF c.parts > maximum
    THEN [res |-> "NoCapacity", cap |-> c]
    ELSE [res |-> "Ok", cap |-> [c EXCEPT !.parts = @ + 1]]

\* Bucket::add_part
add_part(c) ==
    IF c.parts >= maximum
    THEN [res |-> "NoCapacity", cap |-> c]
    ELSE [res |-> "Ok", cap |-> [c EXCEPT !.parts = @ + 1]]

\* remove_part that forgets to count down
remove_part_keep(c) == c

\* remove_part that forgets every part
remove_part_all(c) == [c EXCEPT !.parts = 0]

\* Bucket::remove_part
remove_part(c) == IF c.parts > 0 THEN [c EXCEPT !.parts = @ - 1] ELSE c

\* ------------------------------------------------------------- limiter.rs
\* an insert that keeps the entry already stored under the key
enqueue_push(ts, id, task) ==
    LET Below(e) == e.id <= id
        Above(e) == e.id > id
    IN  SelectSeq(ts, Below) \o <<[id |-> id, task |-> task]>> \o SelectSeq(ts, Above)

\* an insert that stores nothing
enqueue_none(ts, id, task) == ts

\* HashMap::insert on Limiter.tasks: an entry of the same key is replaced
\* (the map's entries are listed by ascending key)
enqueue(ts, id, task) ==
    LET Below(e) == e.id < id
        Above(e) == e.id > id
    IN  SelectSeq(ts, Below) \o <<[id |-> id, task |-> task]>> \o SelectSeq(ts, Above)

\* a remove that leaves the entry in the map
tasks_remove_none(ts, id) == ts

\* HashMap::remove on Limiter.tasks
tasks_remove(ts, id) ==
    LET Other(e) == e.id # id
    IN  SelectSeq(ts, Other)

\* a drain that notifies the first entry only
drain_notify_one(ts) ==
    [s \in Slots |-> IF Len(ts) > 0 /\ ts[1].task = s THEN 1 ELSE 0]

\* the notify() calls of one drain of ts, per task
drain_notify(ts) ==
    [s \in Slots |-> Cardinality({i \in 1..Len(ts) : ts[i].task = s})]

\* what tt.drain() leaves in the map
drain_rest(ts) == << >>

NoLast == [op |-> "none", n |-> 0, res |-> "none", t |-> NoToken]

NoLimited == [pc |-> "none", id |-> 0, len |-> 0, t |-> NoToken]

\* the tasks that run the crate's code: one per wrapper, and the timer
Procs == Slots \cup {"timer"}

\* Bucket.capacity: Mutex<Capacity> and Limiter.tasks: Mutex<HashMap<Id, Task>>
Mutexes == {"bucket", "tasks"}

\* both free, nobody parked
NoLocks ==
    [held |-> [l \in Mutexes |-> "free"], want |-> [p \in Procs |-> "none"],
     calls |-> 0]

\* the step makes no notify() call
Quiet == notified' = [s \in Slots |-> 0]

Init ==
    /\ maximum \in 0..MaxCapacity
    /\ idgen = 1
    /\ cap = Bucket_new(maximum)
    /\ clock = 0
    /\ timer = "wait"
    /\ tasks = << >>
    /\ limited = [s \in Slots |-> NoLimited]
    /\ held = << >>
    /\ last = NoLast
    /\ notified = [s \in Slots |-> 0]
    /\ waiting = {}
    /\ xfer = 0
    /\ locks = NoLocks

\* ----------------------------------------------------------- the timer task
\* Bucket::reset(i) as the timer calls it
ResetRuns(i) ==
    /\ timer = "wait"
    /\ cap' = reset(cap, i)
    /\ timer' = "drain"
    /\ limited' = [s \in Slots |-> [limited[s] EXCEPT !.t.fresh = FALSE]]
    /\ held' = [j \in 1..Len(held) |-> [held[j] EXCEPT !.fresh = FALSE]]
    /\ last' = [op |-> "reset", n |-> 0, res |-> "Ok", t |-> NoToken]
    /\ Quiet
    /\ UNCHANGED <<maximum, idgen, tasks, waiting>>

\* a tick, first half: bucket.reset(clock.fetch_add(1, Relaxed)), the reset
\* getting the value the clock had before the addition;
\* the meter is left to the specification
ResetStep ==
    /\ clock < MaxClock
    /\ ResetRuns(clock)
    /\ clock' = clock + 1

TickReset == ResetStep /\ UNCHANGED <<xfer, locks>>

\* a tick, second half: lock tasks, drain it, notify every entry
DrainStep ==
    /\ timer = "drain"
    /\ notified' = drain_notify(tasks)
    /\ tasks' = drain_rest(tasks)
    /\ waiting' = {s \in waiting : drain_notify(tasks)[s] = 0}
    /\ timer' = "wait"
    /\ last' = [op |-> "drain", n |-> 0, res |-> "Ok", t |-> NoToken]
    /\ UNCHANGED <<maximum, idgen, cap, clock, limited, held, xfer>>

TickDrain == DrainStep /\ UNCHANGED locks

\* the Interval stream yields an error: for_each ends, no tick follows
TimerError ==
    /\ timer = "wait"
    /\ timer' = "failed"
    /\ Quiet
    /\ UNCHANGED <<maximum, idgen, cap, clock, tasks, limited, held, last,
                   waiting, xfer, locks>>

\* -------------------------------------------------------------- limited.rs
\* Limited::new: Limiter::register, i.e. Bucket::add_part;
\* the record of what it returned is left to the specification
NewStep(s) ==
    /\ limited[s].pc = "none"
    /\ add_part(cap).res = "NoCapacity" \/ idgen <= MaxId
    /\ cap' = add_part(cap).cap
    /\ IF add_part(cap).res = "Ok"
       THEN /\ limited' = [limited EXCEPT ![s] = [NoLimited EXCEPT !.pc = "idle",
                                                                  !.id = idgen]]
            /\ idgen' = idgen + 1
       ELSE UNCHANGED <<limited, idgen>>
    /\ Quiet
    /\ UNCHANGED <<maximum, clock, timer, tasks, held, waiting, xfer>>

New(s) == NewStep(s) /\ UNCHANGED <<last, locks>>

\* read / write, first step: self.lim.get(self.id, buf.len())
GetStep(s, len) ==
    /\ limited[s].pc = "idle"
    /\ cap' = get(cap, len).cap
    /\ limited' = [limited EXCEPT ![s] =
          [@ EXCEPT !.pc = IF get(cap, len).res = "Ok" THEN "got" ELSE "throttled",
                    !.len = len,
                    !.t = get(cap, len).t]]
    /\ Quiet
    /\ UNCHANGED <<maximum, idgen, clock, timer, tasks, held, waiting, xfer>>

IoGet(s, len) == GetStep(s, len) /\ UNCHANGED <<last, locks>>

\* read / write after Ok(t): the underlying call moves m of k bytes,
\* then t.set(n - m) and self.lim.release(t); the meter and the record of
\* what it returned are left to the specification
OkStep(s, m) ==
    /\ limited[s].pc = "got"
    /\ LET t == limited[s].t
           n == Token_get(t)
           k == Min(limited[s].len, n)
       IN  /\ m <= k
           /\ cap' = release(cap, Token_set(t, n - m))
    /\ limited' = [limited EXCEPT ![s] = [@ EXCEPT !.pc = "idle", !.len = 0, !.t = NoToken]]
    /\ Quiet
    /\ UNCHANGED <<maximum, idgen, clock, timer, tasks, held, waiting>>

IoOk(s, m) == OkStep(s, m) /\ UNCHANGED <<xfer, last, locks>>

\* an error path that hands the token back
ErrStep_release(s) ==
    /\ limited[s].pc = "got"
    /\ cap' = release(cap, limited[s].t)
    /\ limited' = [limited EXCEPT ![s] = [@ EXCEPT !.pc = "idle", !.len = 0, !.t = NoToken]]
    /\ Quiet
    /\ UNCHANGED <<maximum, idgen, clock, timer, tasks, held, waiting, xfer>>

\* read / write after Ok(t): the underlying call fails, Err(e) is returned
ErrStep(s) ==
    /\ limited[s].pc = "got"
    /\ limited' = [limited EXCEPT ![s] = [@ EXCEPT !.pc = "idle", !.len = 0, !.t = NoToken]]
    /\ Quiet
    /\ UNCHANGED <<maximum, idgen, cap, clock, timer, tasks, held, waiting, xfer>>

IoErr(s) == ErrStep(s) /\ UNCHANGED <<last, locks>>

\* read / write after Err(NoCapacity): self.lim.enqueue(self.id), WouldBlock
ThrottledStep(s) ==
    /\ limited[s].pc = "throttled"
    /\ tasks' = enqueue(tasks, limited[s].id, s)
    /\ limited' = [limited EXCEPT ![s] = [@ EXCEPT !.pc = "idle", !.len = 0]]
    /\ waiting' = waiting \cup {s}
    /\ Quiet
    /\ UNCHANGED <<maximum, idgen, cap, clock, timer, held, xfer>>

Throttled(s) == ThrottledStep(s) /\ UNCHANGED <<last, locks>>

\* Drop for Limited, first half of Limiter::deregister: tasks.lock().remove(&id)
DropTasksStep(s) ==
    /\ limited[s].pc = "idle"
    /\ tasks' = tasks_remove(tasks, limited[s].id)
    /\ limited' = [limited EXCEPT ![s] = [@ EXCEPT !.pc = "drop"]]
    /\ waiting' = waiting \ {s}
    /\ Quiet
    /\ UNCHANGED <<maximum, idgen, cap, clock, timer, held, xfer>>

DropTasks(s) == DropTasksStep(s) /\ UNCHANGED <<last, locks>>

\* Drop for Limited, second half of Limiter::deregister: bucket.remove_part(id)
DropPartStep(s) ==
    /\ limited[s].pc = "drop"
    /\ cap' = remove_part(cap)
    /\ limited' = [limited EXCEPT ![s] = NoLimited]
    /\ Quiet
    /\ UNCHANGED <<maximum, idgen, clock, timer, tasks, held, waiting, xfer>>

DropPart(s) == DropPartStep(s) /\ UNCHANGED <<last, locks>>

\* --------------------------------------------- direct calls of the Bucket
BAddPart ==
    /\ add_part(cap).res = "NoCapacity" \/ idgen <= MaxId
    /\ cap' = add_part(cap).cap
    /\ idgen' = IF add_part(cap).res = "Ok" THEN idgen + 1 ELSE idgen
    /\ last' = [op |-> "add_part", n |-> 0, res |-> add_part(cap).res, t |-> NoToken]
    /\ Quiet
    /\ UNCHANGED <<maximum, clock, timer, tasks, limited, held, waiting, xfer, locks>>

BRemovePart ==
    /\ cap' = remove_part(cap)
    /\ last' = [op |-> "remove_part", n |-> 0, res |-> "Ok", t |-> NoToken]
    /\ Quiet
    /\ UNCHANGED <<maximum, idgen, clock, timer, tasks, limited, held, waiting, xfer, locks>>

BGet(hint) ==
    /\ Len(held) < MaxHeld
    /\ cap' = get(cap, hint).cap
    /\ held' = IF get(cap, hint).res = "Ok" THEN Append(held, get(cap, hint).t) ELSE held
    /\ last' = [op |-> "get", n |-> hint, res |-> get(cap, hint).res,
                t |-> get(cap, hint).t]
    /\ Quiet
    /\ UNCHANGED <<maximum, idgen, clock, timer, tasks, limited, waiting, xfer, locks>>

BRelease(i) ==
    /\ i \in 1..Len(held)
    /\ release(cap, held[i]).value <= MaxValue
    /\ cap' = release(cap, held[i])
    /\ held' = [j \in 1..(Len(held) - 1) |-> IF j < i THEN held[j] ELSE held[j + 1]]
    /\ last' = [op |-> "release", n |-> 0, res |-> "Ok", t |-> held[i]]
    /\ Quiet
    /\ UNCHANGED <<maximum, idgen, clock, timer, tasks, limited, waiting, xfer, locks>>

\* ---------------------------------------------------------- specifications
\* the crate's public API and its timer task
Next ==
    \/ TickReset
    \/ TickDrain
    \/ TimerError
    \/ \E s \in Slots : New(s)
    \/ \E s \in Slots, len \in 0..MaxHint : IoGet(s, len)
    \/ \E s \in Slots, m \in 0..MaxHint : IoOk(s, m)
    \/ \E s \in Slots : IoErr(s)
    \/ \E s \in Slots : Throttled(s)
    \/ \E s \in Slots : DropTasks(s)
    \/ \E s \in Slots : DropPart(s)

Spec == Init /\ [][Next]_vars

\* the bytes a step IoOk(s, m) adds to the meter
Metered(s, m) == IF limited[s].t.fresh THEN xfer + m ELSE xfer

\* a reset starts a period of the meter
MeteredTickReset == ResetStep /\ xfer' = 0 /\ UNCHANGED locks

MeteredIoOk(s, m) ==
    OkStep(s, m) /\ xfer' = Metered(s, m) /\ UNCHANGED <<last, locks>>

\* Next with the meter running
RateNext ==
    \/ MeteredTickReset
    \/ TickDrain
    \/ TimerError
    \/ \E s \in Slots : New(s)
    \/ \E s \in Slots, len \in 0..MaxHint : IoGet(s, len)
    \/ \E s \in Slots, m \in 0..MaxHint : MeteredIoOk(s, m)
    \/ \E s \in Slots : IoErr(s)
    \/ \E s \in Slots : Throttled(s)
    \/ \E s \in Slots : DropTasks(s)
    \/ \E s \in Slots : DropPart(s)

RateSpec == Init /\ [][RateNext]_vars

\* Next with an Interval that never fails, the buffers being short
TickingNext ==
    \/ TickReset
    \/ TickDrain
    \/ \E s \in Slots : New(s)
    \/ \E s \in Slots, len \in 0..MaxFairHint : IoGet(s, len)
    \/ \E s \in Slots, m \in 0..MaxFairHint : IoOk(s, m)
    \/ \E s \in Slots : IoErr(s)
    \/ \E s \in Slots : Throttled(s)
    \/ \E s \in Slots : DropTasks(s)
    \/ \E s \in Slots : DropPart(s)

\* ... and keeps firing: every tick is followed by the next
FairSpec ==
    /\ Init
    /\ [][TickingNext]_vars
    /\ WF_vars(TickReset)
    /\ WF_vars(TickDrain)

\* the Bucket's methods called directly, next to the timer
BucketNext ==
    \/ TickReset
    \/ TickDrain
    \/ BAddPart
    \/ BRemovePart
    \/ \E hint \in 0..MaxHint : BGet(hint)
    \/ \E i \in 1..MaxHeld : BRelease(i)

BucketSpec == Init /\ [][BucketNext]_vars

\* what a call of the public API returned: Limited::new gives the Result of
\* Limiter::register, read / write give Ok(m), Err(e) or WouldBlock
Returned(op, m, res) == [op |-> op, n |-> m, res |-> res, t |-> NoToken]

NewReturns(s) ==
    NewStep(s) /\ last' = Returned("new", 0, add_part(cap).res) /\ UNCHANGED locks

IoOkReturns(s, m) ==
    OkStep(s, m) /\ last' = Returned("io", m, "Ok") /\ UNCHANGED <<xfer, locks>>

IoErrReturns(s) ==
    ErrStep(s) /\ last' = Returned("io", 0, "Err") /\ UNCHANGED locks

ThrottledReturns(s) ==
    ThrottledStep(s) /\ last' = Returned("io", 0, "WouldBlock") /\ UNCHANGED locks

\* steps that return nothing to the application yet
IoGetRuns(s, len) == GetStep(s, len) /\ last' = NoLast /\ UNCHANGED locks

DropTasksRuns(s) == DropTasksStep(s) /\ last' = NoLast /\ UNCHANGED locks

DropPartRuns(s) == DropPartStep(s) /\ last' = NoLast /\ UNCHANGED locks

\* Next with an Interval that never fails and with `last` telling what the
\* step just taken returned
CallNext ==
    \/ TickReset
    \/ TickDrain
    \/ \E s \in Slots : NewReturns(s)
    \/ \E s \in Slots, len \in 0..MaxHint : IoGetRuns(s, len)
    \/ \E s \in Slots, m \in 0..MaxHint : IoOkReturns(s, m)
    \/ \E s \in Slots : IoErrReturns(s)
    \/ \E s \in Slots : ThrottledReturns(s)
    \/ \E s \in Slots : DropTasksRuns(s)
    \/ \E s \in Slots : DropPartRuns(s)

CallSpec == Init /\ [][CallNext]_vars

\* a Bucket some way into a generation: parts were added and removed (each
\* add_part that succeeded took an Id), tokens were granted, which takes a
\* part, and dropped
GetInit ==
    /\ maximum \in 0..MaxParts
    /\ cap \in [index : {0}, value : 0..MaxParts, parts : 0..MaxParts]
    /\ cap.value <= maximum
    /\ cap.parts <= maximum
    /\ idgen \in 1..(MaxParts + 1)
    /\ idgen >= cap.parts + 1
    /\ cap.value < maximum => idgen >= 2
    /\ maximum = 0 => idgen = 1
    /\ clock = 0
    /\ timer = "wait"
    /\ tasks = << >>
    /\ limited = [s \in Slots |-> NoLimited]
    /\ held = << >>
    /\ last = NoLast
    /\ notified = [s \in Slots |-> 0]
    /\ waiting = {}
    /\ xfer = 0
    /\ locks = NoLocks

\* Bucket::get called again, the tokens granted so far being kept
GetAgain(hint) ==
    /\ Len(held) < MaxGrants
    /\ cap' = get(cap, hint).cap
    /\ held' = IF get(cap, hint).res = "Ok" THEN Append(held, get(cap, hint).t) ELSE held
    /\ last' = [op |-> "get", n |-> hint, res |-> get(cap, hint).res,
                t |-> get(cap, hint).t]
    /\ Quiet
    /\ UNCHANGED <<maximum, idgen, clock, timer, tasks, limited, waiting, xfer, locks>>

GetNext == \E hint \in 0..MaxHint : GetAgain(hint)

\* Bucket::get called in a row, with no release, reset or change of parts
GetSpec == GetInit /\ [][GetNext]_vars

\* ------------------------------------------------- the two parking_lot locks
\* p holds the guard of Mutex l
Holds(p, l) == locks.held[l] = p

\* Mutex::lock called by p: the guard if the Mutex is free, else p parks
lock(lk, p, l) ==
    IF lk.held[l] = "free"
    THEN [lk EXCEPT !.held[l] = p]
    ELSE [lk EXCEPT !.want[p] = l]

\* the guard of l is dropped
unlock(lk, l) == [lk EXCEPT !.held[l] = "free"]

\* the Mutexes locked by the code p may run next: Bucket::add_part at
\* Limited::new; Bucket::get or (Drop) tasks.lock().remove at rest;
\* Bucket::release after the underlying call; tasks.lock().insert after
\* NoCapacity; Bucket::remove_part in deregister; Bucket::reset and
\* tasks.lock() in the timer
Uses(p) ==
    IF p = "timer"
    THEN CASE timer = "wait"  -> {"bucket"}
           [] timer = "drain" -> {"tasks"}
           [] OTHER           -> {}
    ELSE CASE limited[p].pc = "none"      -> {"bucket"}
           [] limited[p].pc = "idle"      -> {"bucket", "tasks"}
           [] limited[p].pc = "got"       -> {"bucket"}
           [] limited[p].pc = "throttled" -> {"tasks"}
           [] limited[p].pc = "drop"      -> {"bucket"}
           [] OTHER                       -> {}

\* p is at the start of a piece of code, in none of its critical sections
AtStart(p) ==
    /\ locks.want[p] = "none"
    /\ \A l \in Uses(p) : ~Holds(p, l)

\* registrations begun by the other wrappers
Pending(s) ==
    {u \in Slots \ {s} : /\ limited[u].pc = "none"
                         /\ (Holds(u, "bucket") \/ locks.want[u] = "bucket")}

\* p calls lock() on l; the timer's call in Bucket::reset comes after the
\* clock.fetch_add(1, Relaxed) that computes the argument of reset
Lock(p, l) ==
    /\ AtStart(p)
    /\ l \in Uses(p)
    /\ locks.calls < MaxLockCalls
    /\ (p \in Slots /\ limited[p].pc = "none") =>
           idgen + Cardinality(Pending(p)) <= MaxId
    /\ (p = "timer" /\ l = "bucket") => clock < MaxClock
    /\ clock' = IF p = "timer" /\ l = "bucket" THEN clock + 1 ELSE clock
    /\ locks' = [lock(locks, p, l) EXCEPT !.calls = @ + 1]
    /\ Quiet
    /\ UNCHANGED <<maximum, idgen, cap, timer, tasks, limited, held, last,
                   waiting, xfer>>

\* p, parked on a Mutex that is free again, gets the guard
Wake(p) ==
    /\ locks.want[p] # "none"
    /\ locks.held[locks.want[p]] = "free"
    /\ locks' = [locks EXCEPT !.held[locks.want[p]] = p, !.want[p] = "none"]
    /\ Quiet
    /\ UNCHANGED <<maximum, idgen, cap, clock, timer, tasks, limited, held, last,
                   waiting, xfer>>

\* Bucket::reset under its guard, its argument being the value the clock
\* had before the fetch_add
LockedReset ==
    /\ Holds("timer", "bucket")
    /\ ResetRuns(clock - 1)
    /\ locks' = unlock(locks, "bucket")
    /\ UNCHANGED <<clock, xfer>>

\* the drain under the guard `tt`
LockedDrain ==
    /\ Holds("timer", "tasks")
    /\ DrainStep
    /\ locks' = unlock(locks, "tasks")

\* Bucket::add_part under its guard
LockedNew(s) ==
    /\ Holds(s, "bucket")
    /\ NewStep(s)
    /\ locks' = unlock(locks, "bucket")
    /\ UNCHANGED last

\* Bucket::get under its guard
LockedGet(s, len) ==
    /\ Holds(s, "bucket")
    /\ GetStep(s, len)
    /\ locks' = unlock(locks, "bucket")
    /\ UNCHANGED last

\* the underlying call returned Ok(m): Bucket::release under its guard
LockedOk(s, m) ==
    /\ Holds(s, "bucket")
    /\ OkStep(s, m)
    /\ locks' = unlock(locks, "bucket")
    /\ UNCHANGED <<xfer, last>>

\* the underlying call returned Err(e): no Mutex is locked
UnlockedErr(s) ==
    /\ AtStart(s)
    /\ ErrStep(s)
    /\ UNCHANGED <<last, locks>>

\* Limiter::enqueue: the insert under the temporary guard
LockedThrottled(s) ==
    /\ Holds(s, "tasks")
    /\ ThrottledStep(s)
    /\ locks' = unlock(locks, "tasks")
    /\ UNCHANGED last

\* a deregister whose guard of tasks lives to the end of the function
LockedDropTasks_keep(s) ==
    /\ Holds(s, "tasks")
    /\ DropTasksStep(s)
    /\ UNCHANGED <<last, locks>>

\* Limiter::deregister, `self.tasks.lock().remove(&id);`: the temporary
\* guard is dropped at the end of the statement
LockedDropTasks(s) ==
    /\ Holds(s, "tasks")
    /\ DropTasksStep(s)
    /\ locks' = unlock(locks, "tasks")
    /\ UNCHANGED last

\* Limiter::deregister, Bucket::remove_part under its guard
LockedDropPart(s) ==
    /\ Holds(s, "bucket")
    /\ DropPartStep(s)
    /\ locks' = unlock(locks, "bucket")
    /\ UNCHANGED last

\* p leaves the critical section it is in
Finish(p) ==
    IF p = "timer"
    THEN LockedReset \/ LockedDrain
    ELSE \/ LockedNew(p)
         \/ \E len \in 0..MaxFairHint : LockedGet(p, len)
         \/ \E m \in 0..MaxFairHint : LockedOk(p, m)
         \/ LockedThrottled(p)
         \/ LockedDropTasks(p)
         \/ LockedDropPart(p)

\* TickingNext with every lock() and every critical section a step
LockNext ==
    \/ \E p \in Procs, l \in Mutexes : Lock(p, l)
    \/ \E p \in Procs : Wake(p)
    \/ LockedReset
    \/ LockedDrain
    \/ \E s \in Slots : LockedNew(s)
    \/ \E s \in Slots, len \in 0..MaxFairHint : LockedGet(s, len)
    \/ \E s \in Slots, m \in 0..MaxFairHint : LockedOk(s, m)
    \/ \E s \in Slots : UnlockedErr(s)
    \/ \E s \in Slots : LockedThrottled(s)
    \/ \E s \in Slots : LockedDropTasks(s)
    \/ \E s \in Slots : LockedDropPart(s)

\* a task inside a critical section runs on, and a parked task gets the
\* Mutex at one of the times it is free (parking_lot's eventual fairness)
LockSpec ==
    /\ Init
    /\ [][LockNext]_vars
    /\ \A p \in Procs : WF_vars(Finish(p)) /\ SF_vars(Wake(p))

\* ------------------------------------------------------------------ claims
RECURSIVE SumFresh(_)
\* the quantities of the tokens of ts granted since the latest reset
SumFresh(ts) ==
    IF ts = << >> THEN 0
    ELSE (IF Head(ts).fresh THEN Head(ts).quant ELSE 0) + SumFresh(Tail(ts))

IsReset == timer = "wait" /\ timer' = "drain"
IsDrain == timer = "drain" /\ timer' = "wait"
GetOk == last'.op = "get" /\ last'.res = "Ok"

\* C1: the bytes moved under the tokens granted between two consecutive
\* resets (or between creation and the first reset) never exceed maximum.
C1_RateCap == xfer <= maximum

\* C2: the remaining capacity never exceeds maximum.
C2_RemainingBounded == cap.value <= maximum

\* C3: the remaining capacity plus the quantities of the tokens granted since
\* the latest reset and not yet released equals maximum.
C3_Conservation == cap.value + SumFresh(held) = maximum

\* C4 as claimed: a successful get(id, hint) returns a quantity that is at
\* most hint and at most the capacity value at the time of the call.
C4_Original ==
    [][GetOk => /\ last'.t.quant <= last'.n
                /\ last'.t.quant <= cap.value]_vars

\* C4 as amended: with parts >= 1 a successful get(id, hint) returns a quantity
\* at most the capacity value at the time of the call and at most max(hint, 1);
\* with parts = 0 it returns maximum, whatever hint and the capacity value are.
C4_GrantBounded ==
    [][GetOk => IF cap.parts = 0
                THEN last'.t.quant = maximum
                ELSE /\ last'.t.quant <= cap.value
                     /\ last'.t.quant <= (IF last'.n = 0 THEN 1 ELSE last'.n)]_vars

\* C4: a get with parts >= 1 was granted less than the value it found (the
\* hint cut the share) and the value it left is still positive
C4_Witness ==
    /\ last.op = "get" /\ last.res = "Ok"
    /\ cap.parts >= 1
    /\ last.t.quant = last.n
    /\ cap.value > 0

\* C5 as claimed: whenever the capacity value is positive a get succeeds with
\* quantity >= 1 for every hint, and it fails only when the value is 0.
C5_Original ==
    [][last'.op = "get" =>
         /\ cap.value > 0 => (last'.res = "Ok" /\ last'.t.quant >= 1)
         /\ last'.res = "NoCapacity" => cap.value = 0]_vars

\* C5 as amended: the same for every hint >= 1.
C5_StarvationFree ==
    [][(last'.op = "get" /\ last'.n >= 1) =>
         /\ cap.value > 0 => (last'.res = "Ok" /\ last'.t.quant >= 1)
         /\ last'.res = "NoCapacity" => cap.value = 0]_vars

\* C5: a get was granted the floor of 1 with more parts than capacity left
C5_Witness ==
    /\ last.op = "get" /\ last.res = "Ok" /\ last.n >= 1
    /\ last.t.quant = 1
    /\ cap.parts >= 2
    /\ cap.value = 0

\* C6: release credits the token's quantity to the capacity value if the
\* token's index is the current index, and otherwise changes nothing.
C6_GenerationIsolation ==
    [][last'.op = "release" =>
         IF last'.t.index = cap.index
         THEN cap' = [cap EXCEPT !.value = @ + last'.t.quant]
         ELSE cap' = cap]_vars

\* C6: a token of positive quantity was released under another index
C6_Witness ==
    /\ last.op = "release"
    /\ last.t.quant > 0
    /\ last.t.index # cap.index
    /\ cap.value < maximum

\* C7: every reset of the timer, the first included, changes the index.
C7_TickAdvances == [][IsReset => cap'.index # cap.index]_vars

\* C8: parts stays within 0..maximum; add_part succeeds, adding one part,
\* exactly when parts < maximum and otherwise fails leaving parts as it is;
\* remove_part at parts = 0 leaves 0.
C8_Parts ==
    /\ [](cap.parts \in 0..maximum)
    /\ [][/\ last'.op = "add_part" =>
               IF cap.parts < maximum
               THEN last'.res = "Ok" /\ cap'.parts = cap.parts + 1
               ELSE last'.res = "NoCapacity" /\ cap'.parts = cap.parts
          /\ (last'.op = "remove_part" /\ cap.parts = 0) => cap'.parts = 0]_vars

\* C8: add_part was refused with parts = maximum >= 1
C8_Witness ==
    /\ last.op = "add_part" /\ last.res = "NoCapacity"
    /\ maximum >= 1
    /\ cap.parts = maximum

\* C9: a drain notifies the task of every Id stored in the registry exactly
\* once, notifies no other task, and leaves the registry empty.
C9_DrainNotifiesOnce ==
    [][IsDrain =>
         /\ tasks' = << >>
         /\ \A s \in Slots :
              notified'[s] = IF \E i \in 1..Len(tasks) : tasks[i].id = limited[s].id
                             THEN 1 ELSE 0]_vars

\* C9: the latest drain notified both wrappers
C9_Witness ==
    /\ last.op = "drain"
    /\ timer = "wait"
    /\ \A s \in Slots : notified[s] = 1

\* C10: a wrapper whose call returned WouldBlock is notified by a later
\* drain, unless it is dropped first or the timer has failed; the waits
\* followed are those with a tick of the run still to come (a drain is due,
\* or the clock is below MaxClock).
C10_NoLostWakeup ==
    \A s \in Slots :
        (s \in waiting /\ (timer = "drain" \/ clock < MaxClock))
           ~> (s \notin waiting \/ timer = "failed")

\* C10: the only wrapper ever built was refused with a hint >= 1, so at
\* value 0, and a reset and its drain have run before its enqueue, with a
\* tick still to come
C10_Witness ==
    \E s \in Slots :
        /\ limited[s].pc = "throttled"
        /\ limited[s].len >= 1
        /\ idgen = 2
        /\ maximum >= 1
        /\ cap.value = maximum
        /\ tasks = << >>
        /\ timer = "wait"
        /\ clock < MaxClock

\* slot s holds a wrapper whose deregister has not begun
Live(s) == limited[s].pc \in {"idle", "got", "throttled"}

\* slot s holds a wrapper: built, and its drop has not finished
Exists(s) == limited[s].pc # "none"

\* C11: once the timer task has failed, no register, get or enqueue of the
\* Limiter succeeds: no wrapper is built, no call is granted a token or told
\* NoCapacity, no waiter is stored.
C11_FaultIsPermanent ==
    [][timer = "failed" =>
         \A s \in Slots :
            /\ ~(limited[s].pc = "none" /\ limited'[s].pc = "idle")
            /\ ~(limited[s].pc = "idle" /\ limited'[s].pc \in {"got", "throttled"})
            /\ ~(limited[s].pc = "throttled" /\ limited'[s].pc = "idle")]_vars

\* C12: parts equals the number of wrappers that exist; a step changes parts
\* and the id generator by the wrappers it builds, and parts by the wrappers
\* whose drop it finishes, and by nothing else.
C12_PartsAreWrappers ==
    /\ [](cap.parts = Cardinality({s \in Slots : Exists(s)}))
    /\ [][LET built == {s \in Slots : ~Exists(s) /\ Exists(s)'}
              gone  == {s \in Slots : Exists(s) /\ ~Exists(s)'}
          IN  /\ cap'.parts = cap.parts + Cardinality(built) - Cardinality(gone)
              /\ idgen' = idgen + Cardinality(built)]_vars

\* C12: two wrappers were built and one of them is gone again
C12_Witness ==
    /\ idgen = 3
    /\ cap.parts = 1
    /\ \E s \in Slots : ~Exists(s)

\* slot s begins a call and is granted a token
Granted(s) == limited[s].pc = "idle" /\ limited'[s].pc = "got"

\* slot s begins a call and is told NoCapacity
Refused(s) == limited[s].pc = "idle" /\ limited'[s].pc = "throttled"

\* the call of slot s returns res
Returns(s, res) ==
    /\ limited[s].pc \in {"got", "throttled"}
    /\ limited'[s].pc = "idle"
    /\ last'.res = res

\* C13: a read / write of length L granted N takes N from the capacity value;
\* when it returns Ok(M) then M <= min(L, N) and, no reset having come since
\* the grant, N - M is credited back, so the call took M in all.
C13_SuccessAccounting ==
    [][\A s \in Slots :
         /\ Granted(s) => cap'.value = cap.value - limited'[s].t.quant
         /\ Returns(s, "Ok") =>
              /\ last'.n <= Min(limited[s].len, limited[s].t.quant)
              /\ limited[s].t.fresh =>
                   cap'.value = cap.value + (limited[s].t.quant - last'.n)]_vars

\* C13: the only wrapper ever built, before any tick, moved 0 bytes under a
\* token of quantity >= 1 and the whole capacity is available again
C13_Witness ==
    /\ last.op = "io" /\ last.res = "Ok" /\ last.n = 0
    /\ idgen = 2 /\ cap.parts = 1
    /\ clock = 0 /\ timer = "wait"
    /\ maximum = 2
    /\ cap.value = maximum

\* C14: when the underlying call fails the wrapper returns Err(e), credits
\* nothing, stores no waiter, and drops the token.
C14_ErrorKeepsToken ==
    [][\A s \in Slots :
         Returns(s, "Err") =>
              /\ limited[s].pc = "got"
              /\ cap' = cap
              /\ tasks' = tasks
              /\ waiting' = waiting
              /\ limited'[s].t = NoToken]_vars

\* C14: the only wrapper ever built took the whole capacity, its underlying
\* call failed, and the capacity value is still 0
C14_Witness ==
    /\ last.op = "io" /\ last.res = "Err"
    /\ idgen = 2 /\ cap.parts = 1
    /\ maximum >= 1
    /\ cap.value = 0
    /\ tasks = << >>

\* what a refused call does: nothing on being refused, then it stores its
\* Id in the registry and returns WouldBlock, the capacity untouched
Absorbed ==
    \A s \in Slots :
         /\ Refused(s) => cap' = cap /\ tasks' = tasks
         /\ (limited[s].pc = "throttled" /\ limited'[s] # limited[s]) =>
              /\ Returns(s, "WouldBlock")
              /\ cap' = cap
              /\ \E i \in 1..Len(tasks') : tasks'[i].id = limited[s].id
              /\ s \in waiting'

\* C15 as claimed: a refused call does no I/O, leaves the capacity as it is,
\* stores its Id and then returns WouldBlock; no call of the API ever returns
\* NoCapacity.
C15_Original ==
    /\ [][Absorbed]_vars
    /\ [](last.res # "NoCapacity")

\* C15 as amended: the same, except that Limited::new returns NoCapacity
\* (when register is refused); read and write never do.
C15_NoCapacityAbsorbed ==
    /\ [][Absorbed]_vars
    /\ [](last.res = "NoCapacity" => last.op = "new")

\* C15: a refused call has stored its Id and returned WouldBlock, and after
\* it a construction was refused with NoCapacity
C15_Witness ==
    /\ last.op = "new" /\ last.res = "NoCapacity"
    /\ \E s \in Slots :
         /\ s \in waiting
         /\ \E i \in 1..Len(tasks) : tasks[i].id = limited[s].id

\* C16: every entry of the registry is under the Id of a wrapper whose
\* deregister has not begun, so a drain notifies no Id that was deregistered;
\* deregister can always run, its first half leaves no entry under the Id,
\* its second half takes one part away.
C16_DeregisterCancels ==
    /\ [](\A i \in 1..Len(tasks) :
             \E s \in Slots : Live(s) /\ limited[s].id = tasks[i].id)
    /\ [](\A s \in Slots :
             /\ limited[s].pc = "idle" => ENABLED DropTasks(s)
             /\ limited[s].pc = "drop" => ENABLED DropPart(s))
    /\ [][\A s \in Slots :
            /\ (limited[s].pc = "idle" /\ limited'[s].pc = "drop") =>
                 \A i \in 1..Len(tasks') : tasks'[i].id # limited[s].id
            /\ (limited[s].pc = "drop" /\ limited'[s] # limited[s]) =>
                 /\ limited'[s].pc = "none"
                 /\ cap'.parts = cap.parts - 1
            /\ (IsDrain /\ notified'[s] > 0) => Live(s)]_vars

\* C16: two wrappers were built, one was deregistered, and the drain just
\* run notified the other one only
C16_Witness ==
    /\ last.op = "drain" /\ timer = "wait"
    /\ idgen = 3
    /\ \E s, u \in Slots :
         /\ limited[s].pc = "none" /\ notified[s] = 0
         /\ Live(u) /\ notified[u] = 1

\* C17 as claimed: from value 3 with 5 parts, calls of get with hint >= 1 in
\* a row are granted quantity 1 five times, and then NoCapacity.
C17_Original ==
    [][(/\ last'.op = "get" /\ last'.n >= 1
        /\ cap.parts = 5
        /\ cap.value + SumFresh(held) = 3) =>
          IF Len(held) < 5
          THEN last'.res = "Ok" /\ last'.t.quant = 1
          ELSE last'.res = "NoCapacity"]_vars

\* C17 as amended: they are granted quantity 1 three times, and then
\* NoCapacity.
C17_ThreeGrants ==
    [][(/\ last'.op = "get" /\ last'.n >= 1
        /\ cap.parts = 5
        /\ cap.value + SumFresh(held) = 3) =>
          IF Len(held) < 3
          THEN last'.res = "Ok" /\ last'.t.quant = 1
          ELSE last'.res = "NoCapacity"]_vars

\* C17: with 5 parts, after three grants of 1 the value is 0 and a get with
\* hint >= 1 was refused
C17_Witness ==
    /\ cap.parts = 5
    /\ cap.value = 0
    /\ Len(held) = 3
    /\ \A i \in 1..Len(held) : held[i].quant = 1
    /\ last.op = "get" /\ last.n >= 1 /\ last.res = "NoCapacity"

\* C18: starting from value = maximum with 1 <= parts <= maximum, while
\* fewer grants than parts were made, a get with hint >= 1 is granted a
\* quantity >= 1.
C18_OnePerPart ==
    [][(/\ last'.op = "get" /\ last'.n >= 1
        /\ cap.parts >= 1
        /\ cap.value + SumFresh(held) = maximum
        /\ Len(held) < cap.parts) =>
          (last'.res = "Ok" /\ last'.t.quant >= 1)]_vars

\* C18: with parts = maximum = 3, three calls of get were granted and took
\* the whole capacity
C18_Witness ==
    /\ maximum = 3
    /\ cap.parts = 3
    /\ Len(held) = 3
    /\ cap.value = 0
    /\ last.op = "get" /\ last.res = "Ok" /\ last.n >= 1

\* C19: get grants maximum when parts = 0, whatever the hint; with parts > 0
\* it grants 1 when value / parts = 0 and value > 0, and min(value / parts,
\* hint) otherwise, being refused with NoCapacity when that is 0; value 100
\* with 4 parts and hint 30 gives 25, 0 parts and hint 40 give maximum.
C19_Reference ==
    /\ [][last'.op = "get" =>
            IF cap.parts = 0
            THEN last'.res = "Ok" /\ last'.t.quant = maximum
            ELSE LET share == cap.value \div cap.parts
                     ref   == IF share = 0 /\ cap.value > 0 THEN 1
                              ELSE IF share < last'.n THEN share ELSE last'.n
                 IN  IF ref = 0
                     THEN last'.res = "NoCapacity"
                     ELSE last'.res = "Ok" /\ last'.t.quant = ref]_vars
    /\ [](/\ get([index |-> 0, value |-> 100, parts |-> 4], 30).t.quant = 25
          /\ get([index |-> 0, value |-> maximum, parts |-> 0], 40).t.quant = maximum)

\* C19: with value >= parts >= 2 a get with hint 2 was granted its share of 1
C19_Witness ==
    /\ last.op = "get" /\ last.res = "Ok"
    /\ last.n = 2
    /\ last.t.quant = 1
    /\ cap.parts >= 2
    /\ cap.value + 1 >= cap.parts

\* C20: a successful get lowers the value by the granted quantity, on the
\* parts = 0 path too, tags the token with the current index and leaves index
\* and parts as they are; a refused get changes nothing.
C20_AcquireDeducts ==
    [][last'.op = "get" =>
         IF last'.res = "Ok"
         THEN /\ cap' = [cap EXCEPT !.value = @ - last'.t.quant]
              /\ last'.t.index = cap.index
         ELSE cap' = cap]_vars

\* C21: no task holds the guards of both Mutexes, or parks on one holding
\* the other; a task parked on a Mutex gets it, and a task holding a guard
\* drops it.
C21_DeadlockFree ==
    /\ [](\A p \in Procs :
            /\ ~(Holds(p, "bucket") /\ Holds(p, "tasks"))
            /\ locks.want[p] # "none" => \A l \in Mutexes : ~Holds(p, l))
    /\ \A p \in Procs :
          (locks.want[p] # "none" \/ \E l \in Mutexes : Holds(p, l))
             ~> (locks.want[p] = "none" /\ \A l \in Mutexes : ~Holds(p, l))

\* C21: the timer drains under the guard of tasks while one wrapper is in
\* a critical section of the Bucket and the other is parked on it
C21_Witness ==
    /\ Holds("timer", "tasks")
    /\ \E s, u \in Slots :
         /\ Holds(s, "bucket")
         /\ locks.want[u] = "bucket"

\* C22: a wrapper that can call get is counted in parts, so parts >= 1
\* whenever read / write calls get; a granted call takes its quantity, which
\* is at least 1, from the value (never the parts = 0 grant of maximum with
\* nothing deducted), and a refused call changes nothing.
C22_WrapperIsRegistered ==
    /\ [](\A s \in Slots : Live(s) => cap.parts >= 1)
    /\ [][\A s \in Slots :
            (Granted(s) \/ Refused(s)) =>
               /\ cap.parts >= 1
               /\ cap'.parts = cap.parts
               /\ Granted(s) =>
                    /\ Token_get(limited'[s].t) >= 1
                    /\ cap'.value = cap.value - Token_get(limited'[s].t)
               /\ Refused(s) => cap' = cap]_vars

\* C22: two wrappers were built, one is gone again, and the other was
\* granted a token by a get that ran with parts = 1
C22_Witness ==
    /\ idgen = 3
    /\ cap.parts = 1
    /\ \E s \in Slots :
         /\ limited[s].pc = "got"
         /\ Token_get(limited[s].t) >= 1
         /\ \A u \in Slots \ {s} : ~Exists(u)
====
